---------------------------- MODULE Spec2Model ----------------------------
(***************************************************************************)
(* Model of the stock screen in src/main.py: get_index_data,               *)
(* get_float_share_and_mv and the loop of filter_stocks with its nine      *)
(* ordered tests, its rejection counters and its final statistics.         *)
(*                                                                         *)
(* Numbers.  A float is a pair <<n, d>> with d >= 0 standing for n/d; d = 0*)
(* is what numpy division by zero yields (n > 0 inf, n < 0 -inf, n = 0     *)
(* nan).  Arithmetic is exact, so rounding is not modelled.  A value that  *)
(* needs a square root (np.std, the Bollinger band) is a triple            *)
(* [a, b, v] standing for a + b * sqrt(v).                                 *)
(*                                                                         *)
(* Units.  Money is counted in units of 1e6 yuan and volume in units whose *)
(* product with a price is a unit of money, so that every product fits     *)
(* a 32-bit integer: 1e8 is 100, 50e8 is 5000 and 200e8 is 20000.          *)
(*                                                                         *)
(* Data.  Prices returned by the providers are finite and strictly         *)
(* positive and a benchmark series is empty or holds at least two rows;    *)
(* volumes and market values are finite and of any sign.                   *)
(*                                                                         *)
(* Rejection reasons carry the names of spec.md section 7; the keys of the *)
(* dict at src/main.py:92-103 are, in the same order, InsufficientHistory, *)
(* NoValuationData, PriceMoveOutOfRange, VolumeRatioTooLow,                *)
(* TurnoverOutOfRange, MarketValueOutOfRange, VolumeUnstable,              *)
(* BandResistance, WeakIntraday and EvaluationError.                       *)
(***************************************************************************)
EXTENDS Integers, Sequences, FiniteSets, TLC

\* ------------------------------------------------------------------------
\* Bounds
\* ------------------------------------------------------------------------

\* longest symbol_list explored
MaxLen == 2

\* ------------------------------------------------------------------------
\* Program constants (scaled as described above)
\* ------------------------------------------------------------------------

MinBars == 20
BollWindow == 20
BollDev == 2
VolWindow == 5
Yi == 100
FloatMvLow == 5000
FloatMvHigh == 20000
FloatPct == 7
PctLow == 3
PctHigh == 5
TurnoverLow == 5
TurnoverHigh == 10
BandMin == 3

\* ------------------------------------------------------------------------
\* Exact arithmetic on floats
\* ------------------------------------------------------------------------

Abs(x) == IF x < 0 THEN -x ELSE x

RECURSIVE GCD(_, _)
GCD(a, b) == IF b = 0 THEN a ELSE GCD(b, a % b)

\* the pair for n/d in lowest terms with a non-negative denominator
Q(n, d) ==
    IF d = 0 THEN <<(IF n > 0 THEN 1 ELSE IF n < 0 THEN -1 ELSE 0), 0>>
    ELSE LET g == GCD(Abs(n), Abs(d))
             s == IF d < 0 THEN -1 ELSE 1
         IN  <<(s * n) \div g, (s * d) \div g>>

I(n) == <<n, 1>>
Zero == I(0)
NaN == <<0, 0>>

IsNaN(x) == x[1] = 0 /\ x[2] = 0
Add(x, y) ==
    IF x[2] = 0 \/ y[2] = 0
    THEN (IF IsNaN(x) \/ IsNaN(y) THEN NaN
          ELSE IF x[2] = 0 /\ y[2] = 0 /\ x[1] # y[1] THEN NaN
          ELSE IF x[2] = 0 THEN x ELSE y)
    ELSE Q(x[1] * y[2] + y[1] * x[2], x[2] * y[2])
Neg(x) == <<-x[1], x[2]>>
Sub(x, y) == Add(x, Neg(y))
Mul(x, y) == Q(x[1] * y[1], x[2] * y[2])
Div(x, y) ==
    IF IsNaN(x) \/ IsNaN(y) THEN NaN
    ELSE IF y[2] = 0 THEN (IF x[2] = 0 THEN NaN ELSE Zero)
    ELSE Q(x[1] * y[2], x[2] * y[1])

\* x < y and x <= y as IEEE comparisons: false as soon as one side is nan
LT(x, y) ==
    /\ ~IsNaN(x)
    /\ ~IsNaN(y)
    /\ IF x[2] = 0 \/ y[2] = 0
       THEN (IF x[2] = 0 /\ y[2] = 0 THEN x[1] < y[1]
             ELSE IF x[2] = 0 THEN x[1] < 0 ELSE y[1] > 0)
       ELSE x[1] * y[2] < y[1] * x[2]
LE(x, y) ==
    /\ ~IsNaN(x)
    /\ ~IsNaN(y)
    /\ IF x[2] = 0 \/ y[2] = 0
       THEN (IF x[2] = 0 /\ y[2] = 0 THEN x[1] <= y[1]
             ELSE IF x[2] = 0 THEN x[1] < 0 ELSE y[1] > 0)
       ELSE x[1] * y[2] <= y[1] * x[2]
Sign(x) == IF x[1] > 0 THEN 1 ELSE IF x[1] < 0 THEN -1 ELSE 0

\* a + b * sqrt(v), for a value computed from a standard deviation
Surd(a, b, v) == [a |-> a, b |-> b, v |-> v]
SurdSub(s, x) == Surd(Sub(s.a, x), s.b, s.v)
SurdMul(s, x) == Surd(Mul(s.a, x), Mul(s.b, x), s.v)
SurdDiv(s, x) == Surd(Div(s.a, x), Div(s.b, x), s.v)
SurdFinite(s) == s.a[2] # 0 /\ s.b[2] # 0 /\ s.v[2] # 0
\* s < x and s > x for a float x; false when either is not finite
SurdLT(s, x) ==
    /\ SurdFinite(s)
    /\ x[2] # 0
    /\ LET r == Sub(x, s.a)
       IN  IF Sign(s.b) = 0 THEN Sign(r) > 0
           ELSE LET t == Div(r, s.b)
                IN  IF Sign(s.b) > 0
                    THEN Sign(t) > 0 /\ LT(s.v, Mul(t, t))
                    ELSE Sign(t) < 0 \/ LT(Mul(t, t), s.v)
SurdGT(s, x) ==
    /\ SurdFinite(s)
    /\ x[2] # 0
    /\ LET r == Sub(x, s.a)
       IN  IF Sign(s.b) = 0 THEN Sign(r) < 0
           ELSE LET t == Div(r, s.b)
                IN  IF Sign(s.b) > 0
                    THEN Sign(t) < 0 \/ LT(Mul(t, t), s.v)
                    ELSE Sign(t) > 0 /\ LT(s.v, Mul(t, t))

\* ------------------------------------------------------------------------
\* Series (pandas / numpy)
\* ------------------------------------------------------------------------

RECURSIVE SumSeq(_)
SumSeq(s) == IF s = <<>> THEN 0 ELSE Head(s) + SumSeq(Tail(s))

\* s.iloc[-k:] : the last k values (all of them when there are fewer)
LastN(s, k) == IF Len(s) <= k THEN s ELSE SubSeq(s, Len(s) - k + 1, Len(s))
\* s.iloc[-6:-1]
Prior5(s) == LastN(SubSeq(s, 1, Len(s) - 1), VolWindow)

\* mean of a series of integers; nan for an empty one
Mean(s) == IF s = <<>> THEN NaN ELSE Q(SumSeq(s), Len(s))
\* population variance (ddof = 0), as np.std and ta's BollingerBands use
Variance(s) ==
    IF s = <<>> THEN NaN
    ELSE LET n == Len(s)
             t == SumSeq(s)
         IN  Q(SumSeq([i \in 1..n |-> (n * s[i] - t) * (n * s[i] - t)]),
               n * n * n)
Std(s) == Surd(Zero, I(1), Variance(s))

\* ------------------------------------------------------------------------
\* Python values
\* ------------------------------------------------------------------------

\* a name not yet assigned, None, and a number
Unbound == [k |-> "unbound", q |-> Zero]
None == [k |-> "none", q |-> Zero]
Num(x) == [k |-> "num", q |-> x]
\* bool(x) for None or a number
Truthy(x) == x.k = "num" /\ (IsNaN(x.q) \/ x.q[1] # 0)
\* x != 0 on floats
Neq0(x) == IsNaN(x) \/ x[1] # 0

NoFrame == [k |-> "unbound", cols |-> {}, close |-> <<>>, volume |-> <<>>]
NoTicks == [k |-> "unbound", cols |-> {}, price |-> <<>>]
Raises == [k |-> "raise", cols |-> {}, close |-> <<>>, volume |-> <<>>]
TicksRaise == [k |-> "raise", cols |-> {}, price |-> <<>>]

Reasons ==
    {"InsufficientHistory", "NoValuationData", "PriceMoveOutOfRange",
     "VolumeRatioTooLow", "TurnoverOutOfRange", "MarketValueOutOfRange",
     "VolumeUnstable", "BandResistance", "WeakIntraday", "EvaluationError"}

\* ------------------------------------------------------------------------
\* What the data providers may return
\* ------------------------------------------------------------------------

Symbols == {"600000", "000001"}

\* a daily frame of n rows: closes alternate between lo and hi and end with
\* prev, today; volumes end with the five of prior and then vtoday
MkDaily(n, lo, hi, prev, today, prior, vtoday, cols) ==
    [k |-> "df", cols |-> cols,
     close |-> [i \in 1..n |-> IF i = n THEN today
                               ELSE IF i = n - 1 THEN prev
                               ELSE IF i % 2 = 0 THEN lo ELSE hi],
     volume |-> [i \in 1..n |-> IF i = n THEN vtoday
                                ELSE IF i >= n - VolWindow
                                     THEN prior[i - n + VolWindow + 1]
                                     ELSE 5]]

BothCols == {"close", "volume"}
Steady == <<5, 5, 5, 5, 5>>
CloseToday == {102, 103, 104, 105, 106}
VolumeCases ==
    {<<Steady, 4>>, <<Steady, 5>>, <<Steady, 6>>, <<Steady, 10>>,
     <<Steady, 11>>, <<Steady, 20>>, <<<<21, 1, 1, 1, 1>>, 6>>, <<<<28, 3, 3, 3, 3>>, 8>>,
     <<<<0, 0, 0, 0, 0>>, 6>>, <<<<0, 0, 0, 0, 0>>, 0>>,
     <<<<30, -1, -2, -1, -2>>, 6>>}

DailyChoices ==
    {MkDaily(20, 80, 120, 100, c, Steady, 6, BothCols) : c \in CloseToday}
    \cup {MkDaily(20, 80, 120, 100, 104, vc[1], vc[2], BothCols) :
              vc \in VolumeCases}
    \cup {MkDaily(n, 80, 120, 100, 104, Steady, 6, BothCols) :
              n \in {0, 19, 21}}
    \cup {MkDaily(20, 100, 100, 100, 104, Steady, 6, BothCols)}
    \cup {MkDaily(20, 80, 120, 100, 104, Steady, 6, cs) :
              cs \in {{"close"}, {"volume"}}}

\* ak.stock_a_indicator_lg: raises, or a frame that is empty, or lacks the
\* total_mv column, or holds a total market value in units of 1e8
IndicatorChoices ==
    {[k |-> "raise", empty |-> TRUE, has_total_mv |-> FALSE, total_mv |-> 0],
     [k |-> "df", empty |-> TRUE, has_total_mv |-> FALSE, total_mv |-> 0],
     [k |-> "df", empty |-> FALSE, has_total_mv |-> FALSE, total_mv |-> 0]}
    \cup {[k |-> "df", empty |-> FALSE, has_total_mv |-> TRUE, total_mv |-> m] :
              m \in {-104, 0, 70, 104, 300}}
\* the provider holds a total market value for the symbol
Resolves(ind) == ind.k = "df" /\ ~ind.empty /\ ind.has_total_mv

\* ak.stock_zh_a_spot_em filtered on the symbol: raises, or no row, or a row
SpotChoices ==
    {[k |-> "raise", found |-> FALSE, price |-> 0],
     [k |-> "df", found |-> FALSE, price |-> 0]}
    \cup {[k |-> "df", found |-> TRUE, price |-> p] : p \in {-10, 0, 10}}

IntradayChoices ==
    {TicksRaise,
     [k |-> "df", cols |-> {"price"}, price |-> <<>>],
     [k |-> "df", cols |-> {}, price |-> <<>>],
     [k |-> "df", cols |-> {}, price |-> <<100, 102, 104>>]}
    \cup {[k |-> "df", cols |-> {"price"}, price |-> p] :
              p \in {<<100, 102, 104>>, <<104, 104, 104>>,
                     <<100, 110, 102>>, <<108, 110, 112>>}}

\* a benchmark call: raises, or a frame without the close column, or an
\* empty frame, or closes
IndexChoices ==
    {[k |-> "raise", has_close |-> FALSE, close |-> <<>>],
     [k |-> "df", has_close |-> FALSE, close |-> <<100, 101>>],
     [k |-> "df", has_close |-> TRUE, close |-> <<>>],
     [k |-> "df", has_close |-> TRUE, close |-> <<100, 101>>]}

\* ------------------------------------------------------------------------
\* get_index_data and get_float_share_and_mv
\* ------------------------------------------------------------------------

\* df['pct_change'].iloc[-1] of a frame of closes: nan for a single row
LastPctChange(close) ==
    IF Len(close) < 2 THEN NaN
    ELSE Mul(Div(Sub(I(close[Len(close)]), I(close[Len(close) - 1])),
                 I(close[Len(close) - 1])), I(100))

\* get_index_data with a handler that returns None instead of 0
get_index_data_none(primary, alternate) ==
    LET df == IF primary.k = "raise" THEN alternate ELSE primary
        failed == IF primary.k = "raise" THEN {"primary"} ELSE {}
    IN  IF df.k = "raise"
        THEN [value |-> None, failed |-> failed \cup {"alternate"}]
        ELSE IF ~df.has_close \/ df.close = <<>>
        THEN [value |-> None, failed |-> failed \cup {"compute"}]
        ELSE [value |-> Num(LastPctChange(df.close)), failed |-> failed]

\* The value returned for a primary and an alternate provider outcome, with
\* the calls that failed.  The alternate call is made only when the primary
\* one raises; a missing column or an empty frame raises in the computation.
get_index_data(primary, alternate) ==
    LET df == IF primary.k = "raise" THEN alternate ELSE primary
        failed == IF primary.k = "raise" THEN {"primary"} ELSE {}
    IN  IF df.k = "raise"
        THEN [value |-> Num(Zero), failed |-> failed \cup {"alternate"}]
        ELSE IF ~df.has_close \/ df.close = <<>>
        THEN [value |-> Num(Zero), failed |-> failed \cup {"compute"}]
        ELSE [value |-> Num(LastPctChange(df.close)), failed |-> failed]

\* The pair returned for an indicator and a spot outcome, with the exception
\* the function caught ("none" when it caught nothing).  The spot call is
\* made only for a non-empty indicator frame.
get_float_share_and_mv(ind, spot) ==
    IF ind.k = "raise"
    THEN [float_share |-> None, total_mv |-> None, caught |-> "indicator"]
    ELSE IF ind.empty
    THEN [float_share |-> None, total_mv |-> None, caught |-> "none"]
    ELSE IF spot.k = "raise"
    THEN [float_share |-> None, total_mv |-> None, caught |-> "spot"]
    ELSE LET current_price == IF spot.found THEN Num(I(spot.price)) ELSE None
             total_mv == IF ind.has_total_mv
                         THEN Num(Mul(I(ind.total_mv), I(Yi)))
                         ELSE None
             float_share ==
                 IF /\ Truthy(total_mv)
                    /\ Truthy(current_price)
                    /\ LT(Zero, current_price.q)
                 THEN Num(Mul(Div(total_mv.q, current_price.q),
                              Q(FloatPct, 10)))
                 ELSE None
         IN  [float_share |-> float_share, total_mv |-> total_mv,
              caught |-> "none"]

\* ------------------------------------------------------------------------
\* The quantities and tests of filter_stocks
\* ------------------------------------------------------------------------

Rows(df) == Len(df.close)
TodayClose(df) == I(df.close[Len(df.close)])
PrevClose(df) == I(df.close[Len(df.close) - 1])
TodayVolume(df) == I(df.volume[Len(df.volume)])

\* line 119
TooShort(df) == Rows(df) < MinBars

\* the test of line 125 rejecting only a value that is 0
NoValuationZeroOnly(fs, mv) ==
    \/ fs.k = "num" /\ ~Truthy(fs)
    \/ mv.k = "num" /\ ~Truthy(mv)

\* the test of line 125 rejecting only when both values are None
NoValuationBothNone(fs, mv) == fs.k = "none" /\ mv.k = "none"

\* line 125
NoValuation(fs, mv) == ~Truthy(fs) \/ ~Truthy(mv)

\* lines 134-135
pct_change(df) ==
    Mul(Div(Sub(TodayClose(df), PrevClose(df)), PrevClose(df)), I(100))
\* the test of line 135 with a strict lower bound
PriceMoveOutStrict(df) ==
    ~(LT(I(PctLow), pct_change(df)) /\ LE(pct_change(df), I(PctHigh)))
PriceMoveOut(df) ==
    ~(LE(I(PctLow), pct_change(df)) /\ LE(pct_change(df), I(PctHigh)))

\* lines 140-142
avg_volume_5d(df) == Mean(Prior5(df.volume))
\* line 141 without its guard on a zero mean
volume_ratio_unguarded(df) == Div(TodayVolume(df), avg_volume_5d(df))
volume_ratio(df) ==
    IF Neq0(avg_volume_5d(df))
    THEN Div(TodayVolume(df), avg_volume_5d(df))
    ELSE Zero
VolumeRatioLow(df) == LT(volume_ratio(df), I(1))

\* lines 147-149
est_turnover_rate(df, mv) ==
    Mul(Div(Mul(TodayVolume(df), TodayClose(df)), mv.q), I(100))
TurnoverOut(df, mv) ==
    ~(/\ LE(I(TurnoverLow), est_turnover_rate(df, mv))
      /\ LE(est_turnover_rate(df, mv), I(TurnoverHigh)))

\* lines 154-155
est_float_mv(mv) == Mul(mv.q, Q(FloatPct, 10))
FloatMvOut(mv) ==
    ~(LE(I(FloatMvLow), est_float_mv(mv)) /\ LE(est_float_mv(mv), I(FloatMvHigh)))

\* lines 160-162
volumes(df) == LastN(df.volume, VolWindow)
cv(df) ==
    IF Neq0(Mean(volumes(df)))
    THEN SurdDiv(Std(volumes(df)), Mean(volumes(df)))
    ELSE Surd(Zero, Zero, Zero)
VolumeUnstable(df) == SurdGT(cv(df), Q(1, 2))

\* lines 168-174: the upper band is the mean of the last 20 closes plus two
\* population standard deviations, nan before 20 rows are there
upper(df) ==
    IF Rows(df) < BollWindow THEN Surd(NaN, NaN, NaN)
    ELSE Surd(Mean(LastN(df.close, BollWindow)), I(BollDev),
              Variance(LastN(df.close, BollWindow)))
resistance_distance(df) ==
    SurdMul(SurdDiv(SurdSub(upper(df), TodayClose(df)), TodayClose(df)), I(100))
BandTooClose(df) == SurdLT(resistance_distance(df), I(BandMin))

\* lines 180-188
vwap(ticks) == Mean(ticks.price)
stock_pct(ticks) ==
    Mul(Div(Sub(I(ticks.price[Len(ticks.price)]), I(ticks.price[1])),
            I(ticks.price[1])), I(100))
WeakTail(df, ticks, idx) ==
    \/ LT(TodayClose(df), vwap(ticks))
    \/ LT(stock_pct(ticks), Add(idx.q, I(1)))

\* ------------------------------------------------------------------------
\* State
\* ------------------------------------------------------------------------

VARIABLES
    symbol_list,      \* the argument of filter_stocks
    pc,               \* where filter_stocks stands
    index_pct,        \* line 105
    index_failed,     \* the benchmark calls that failed in get_index_data
    it,               \* entries of symbol_list the for loop has taken
    processed_count,  \* line 109
    selected,         \* line 91
    rejected,         \* lines 92-103
    symbol,           \* the loop variable
    mv_resolvable,    \* the provider holds a total market value for symbol
    daily_df,         \* line 118
    float_share,      \* line 124
    total_mv,         \* line 124
    intraday_df,      \* line 179
    caught            \* the exception caught while evaluating symbol

vars ==
    <<symbol_list, pc, index_pct, index_failed, it, processed_count, selected,
      rejected, symbol, mv_resolvable, daily_df, float_share, total_mv,
      intraday_df, caught>>

run == <<symbol_list, index_pct, index_failed, it, processed_count>>
env == <<symbol, mv_resolvable>>

Stages ==
    {"stage1", "stage2", "stage3", "stage4", "stage5", "stage6", "stage7",
     "stage8", "stage9"}

SymbolLists == UNION {[1..n -> Symbols] : n \in 0..MaxLen}

Init ==
    /\ symbol_list \in SymbolLists
    /\ pc = "start"
    /\ index_pct = Unbound
    /\ index_failed = {}
    /\ it = 0
    /\ processed_count = 0
    /\ selected = <<>>
    /\ rejected = [r \in Reasons |-> 0]
    /\ symbol = "unbound"
    /\ mv_resolvable = FALSE
    /\ daily_df = NoFrame
    /\ float_share = Unbound
    /\ total_mv = Unbound
    /\ intraday_df = NoTicks
    /\ caught = "none"

\* ------------------------------------------------------------------------
\* filter_stocks
\* ------------------------------------------------------------------------

\* rejected[reason] += 1; continue
Reject(reason) ==
    /\ rejected' = [rejected EXCEPT ![reason] = @ + 1]
    /\ pc' = "for"
    /\ UNCHANGED selected

\* the handler of the loop body without line 205
CatchNoCount(what) ==
    /\ caught' = what
    /\ pc' = "for"
    /\ UNCHANGED <<rejected, selected>>

\* the loop body without its handler: the exception leaves filter_stocks
CatchAborts(what) ==
    /\ caught' = what
    /\ pc' = "raised"
    /\ UNCHANGED <<rejected, selected>>

\* lines 204-207: the handler of the loop body
Catch(what) ==
    /\ caught' = what
    /\ Reject("EvaluationError")

\* the test passed: on to the next one
Pass(next) ==
    /\ pc' = next
    /\ UNCHANGED <<rejected, selected, caught>>

\* lines 193-202
Select ==
    /\ selected' = Append(selected, symbol)
    /\ pc' = "for"
    /\ UNCHANGED <<rejected, caught>>

\* line 105
GetIndex ==
    /\ pc = "start"
    /\ \E primary \in IndexChoices, alternate \in IndexChoices :
           LET r == get_index_data(primary, alternate)
           IN  /\ index_pct' = r.value
               /\ index_failed' = r.failed
    /\ pc' = "for"
    /\ UNCHANGED <<symbol_list, it, processed_count, selected, rejected,
                   symbol, mv_resolvable, daily_df, float_share, total_mv,
                   intraday_df, caught>>

\* lines 111-112: the loop takes the next entry.  The names bound by the
\* previous iteration are dead here (each is assigned again before it is
\* read), so they start the iteration unbound.
ForNext ==
    /\ pc = "for"
    /\ it < Len(symbol_list)
    /\ it' = it + 1
    /\ symbol' = symbol_list[it + 1]
    /\ processed_count' = processed_count + 1
    /\ mv_resolvable' \in BOOLEAN
    /\ daily_df' = NoFrame
    /\ float_share' = Unbound
    /\ total_mv' = Unbound
    /\ intraday_df' = NoTicks
    /\ caught' = "none"
    /\ pc' = "stage1"
    /\ UNCHANGED <<symbol_list, index_pct, index_failed, selected, rejected>>

\* the loop is exhausted
ForEnd ==
    /\ pc = "for"
    /\ it = Len(symbol_list)
    /\ pc' = "stats"
    /\ UNCHANGED <<symbol_list, index_pct, index_failed, it, processed_count,
                   selected, rejected, symbol, mv_resolvable, daily_df,
                   float_share, total_mv, intraday_df, caught>>

\* lines 118-121 without the continue of line 121
Stage1NoContinue ==
    /\ pc = "stage1"
    /\ \E d \in {Raises} \cup DailyChoices :
           IF d.k = "raise"
           THEN Catch("daily") /\ UNCHANGED daily_df
           ELSE /\ daily_df' = d
                /\ IF TooShort(d)
                   THEN /\ rejected' = [rejected EXCEPT
                                          !["InsufficientHistory"] = @ + 1]
                        /\ pc' = "stage2"
                        /\ UNCHANGED <<selected, caught>>
                   ELSE Pass("stage2")
    /\ UNCHANGED <<run, env, float_share, total_mv, intraday_df>>

\* lines 118-121
Stage1 ==
    /\ pc = "stage1"
    /\ \E d \in {Raises} \cup DailyChoices :
           IF d.k = "raise"
           THEN Catch("daily") /\ UNCHANGED daily_df
           ELSE /\ daily_df' = d
                /\ IF TooShort(d)
                   THEN Reject("InsufficientHistory") /\ UNCHANGED caught
                   ELSE Pass("stage2")
    /\ UNCHANGED <<run, env, float_share, total_mv, intraday_df>>

\* lines 124-127
Stage2 ==
    /\ pc = "stage2"
    /\ \E ind \in IndicatorChoices, spot \in SpotChoices :
           /\ Resolves(ind) = mv_resolvable
           /\ LET r == get_float_share_and_mv(ind, spot)
              IN  /\ float_share' = r.float_share
                  /\ total_mv' = r.total_mv
                  /\ caught' = r.caught
                  /\ IF NoValuation(r.float_share, r.total_mv)
                     THEN Reject("NoValuationData")
                     ELSE pc' = "stage3" /\ UNCHANGED <<rejected, selected>>
    /\ UNCHANGED <<run, env, daily_df, intraday_df>>

\* lines 130-137
Stage3 ==
    /\ pc = "stage3"
    /\ IF "close" \notin daily_df.cols THEN Catch("close")
       ELSE IF PriceMoveOut(daily_df)
       THEN Reject("PriceMoveOutOfRange") /\ UNCHANGED caught
       ELSE Pass("stage4")
    /\ UNCHANGED <<run, env, daily_df, float_share, total_mv, intraday_df>>

\* lines 140-144
Stage4 ==
    /\ pc = "stage4"
    /\ IF "volume" \notin daily_df.cols THEN Catch("volume")
       ELSE IF VolumeRatioLow(daily_df)
       THEN Reject("VolumeRatioTooLow") /\ UNCHANGED caught
       ELSE Pass("stage5")
    /\ UNCHANGED <<run, env, daily_df, float_share, total_mv, intraday_df>>

\* lines 147-151
Stage5 ==
    /\ pc = "stage5"
    /\ IF TurnoverOut(daily_df, total_mv)
       THEN Reject("TurnoverOutOfRange") /\ UNCHANGED caught
       ELSE Pass("stage6")
    /\ UNCHANGED <<run, env, daily_df, float_share, total_mv, intraday_df>>

\* lines 154-157
Stage6 ==
    /\ pc = "stage6"
    /\ IF FloatMvOut(total_mv)
       THEN Reject("MarketValueOutOfRange") /\ UNCHANGED caught
       ELSE Pass("stage7")
    /\ UNCHANGED <<run, env, daily_df, float_share, total_mv, intraday_df>>

\* lines 160-164
Stage7 ==
    /\ pc = "stage7"
    /\ IF VolumeUnstable(daily_df)
       THEN Reject("VolumeUnstable") /\ UNCHANGED caught
       ELSE Pass("stage8")
    /\ UNCHANGED <<run, env, daily_df, float_share, total_mv, intraday_df>>

\* lines 168-176
Stage8 ==
    /\ pc = "stage8"
    /\ IF BandTooClose(daily_df)
       THEN Reject("BandResistance") /\ UNCHANGED caught
       ELSE Pass("stage9")
    /\ UNCHANGED <<run, env, daily_df, float_share, total_mv, intraday_df>>

\* lines 179-202
Stage9 ==
    /\ pc = "stage9"
    /\ \E t \in IntradayChoices :
           IF t.k = "raise"
           THEN Catch("intraday") /\ UNCHANGED intraday_df
           ELSE /\ intraday_df' = t
                /\ IF t.price = <<>>
                   THEN Reject("WeakIntraday") /\ UNCHANGED caught
                   ELSE IF "price" \notin t.cols THEN Catch("price")
                   ELSE IF WeakTail(daily_df, t, index_pct)
                   THEN Reject("WeakIntraday") /\ UNCHANGED caught
                   ELSE Select
    /\ UNCHANGED <<run, env, daily_df, float_share, total_mv>>

\* lines 214-217 without the test of line 215
StatsRaisesUnguarded(rej, n) == n = 0

\* lines 214-217 divide a counter that is above 0 by len(symbol_list)
StatsRaises(rej, n) == \E r \in Reasons : rej[r] > 0 /\ n = 0

\* lines 210-219
Stats ==
    /\ pc = "stats"
    /\ pc' = IF StatsRaises(rejected, Len(symbol_list)) THEN "raised" ELSE "done"
    /\ UNCHANGED <<symbol_list, index_pct, index_failed, it, processed_count,
                   selected, rejected, symbol, mv_resolvable, daily_df,
                   float_share, total_mv, intraday_df, caught>>

Next ==
    \/ GetIndex
    \/ ForNext
    \/ ForEnd
    \/ Stage1
    \/ Stage2
    \/ Stage3
    \/ Stage4
    \/ Stage5
    \/ Stage6
    \/ Stage7
    \/ Stage8
    \/ Stage9
    \/ Stats

Spec == Init /\ [][Next]_vars

\* ------------------------------------------------------------------------
\* Vocabulary of the properties
\* ------------------------------------------------------------------------

RECURSIVE SumCounters(_, _)
SumCounters(rej, S) ==
    IF S = {} THEN 0
    ELSE LET r == CHOOSE x \in S : TRUE
         IN  rej[r] + SumCounters(rej, S \ {r})
SumRejected == SumCounters(rejected, Reasons)

StageNo(p) ==
    CASE p = "stage1" -> 1 [] p = "stage2" -> 2 [] p = "stage3" -> 3
      [] p = "stage4" -> 4 [] p = "stage5" -> 5 [] p = "stage6" -> 6
      [] p = "stage7" -> 7 [] p = "stage8" -> 8 [] p = "stage9" -> 9
      [] OTHER -> 0

StageOf(r) ==
    CASE r = "InsufficientHistory" -> "stage1"
      [] r = "NoValuationData" -> "stage2"
      [] r = "PriceMoveOutOfRange" -> "stage3"
      [] r = "VolumeRatioTooLow" -> "stage4"
      [] r = "TurnoverOutOfRange" -> "stage5"
      [] r = "MarketValueOutOfRange" -> "stage6"
      [] r = "VolumeUnstable" -> "stage7"
      [] r = "BandResistance" -> "stage8"
      [] r = "WeakIntraday" -> "stage9"
      [] OTHER -> "none"

\* this step ends the evaluation of the current symbol
EndsSymbol == pc \in Stages /\ pc' = "for"
\* this step appends the current symbol to selected and counts nothing
Appends ==
    /\ selected' = Append(selected, symbol)
    /\ rejected' = rejected
\* this step counts the current symbol under reason r and under nothing else
Counts(r) ==
    /\ selected' = selected
    /\ rejected' = [rejected EXCEPT ![r] = @ + 1]
\* this step touches no bucket
NoBucket == selected' = selected /\ rejected' = rejected

\* ------------------------------------------------------------------------
\* C1
\* ------------------------------------------------------------------------

\* C1: at the loop head, in the statistics and at the end the number of
\* entries processed is len(selected) plus the sum of the counters (one more
\* while an entry is being evaluated); the step that ends an entry's
\* evaluation appends it or increments exactly one counter, never both, and
\* no other step touches a bucket; at the end every entry was processed.
C1_Accounting ==
    /\ [](pc \in {"for", "stats", "done"}
            => processed_count = Len(selected) + SumRejected)
    /\ [](pc \in Stages => processed_count = Len(selected) + SumRejected + 1)
    /\ [](pc = "done" => processed_count = Len(symbol_list))
    /\ [][IF EndsSymbol
          THEN Appends \/ \E r \in Reasons : Counts(r)
          ELSE NoBucket]_vars

\* a list that repeats a symbol, one evaluation raising, the other selected
C1_Witness ==
    /\ pc = "done"
    /\ Len(symbol_list) = 2
    /\ symbol_list[1] = symbol_list[2]
    /\ Len(selected) = 1
    /\ rejected["EvaluationError"] = 1

\* ------------------------------------------------------------------------
\* C2
\* ------------------------------------------------------------------------

\* the symbol fails the test of stage p on the data this step leaves
FailsStage(p) ==
    CASE p = "stage1" -> daily_df'.k = "df" /\ TooShort(daily_df')
      [] p = "stage2" -> NoValuation(float_share', total_mv')
      [] p = "stage3" -> "close" \in daily_df.cols /\ PriceMoveOut(daily_df)
      [] p = "stage4" -> "volume" \in daily_df.cols /\ VolumeRatioLow(daily_df)
      [] p = "stage5" -> TurnoverOut(daily_df, total_mv)
      [] p = "stage6" -> FloatMvOut(total_mv)
      [] p = "stage7" -> VolumeUnstable(daily_df)
      [] p = "stage8" -> BandTooClose(daily_df)
      [] p = "stage9" ->
             /\ intraday_df'.k = "df"
             /\ \/ intraday_df'.price = <<>>
                \/ /\ "price" \in intraday_df'.cols
                   /\ WeakTail(daily_df, intraday_df', index_pct)
      [] OTHER -> FALSE

\* C2: a stage is entered only from the stage before it (stage 1 from the
\* loop head); a symbol that fails the test of stage k is counted under the
\* reason of stage k and under nothing else, and control goes back to the
\* loop head; a stage reason is counted only at its own stage; when the
\* evaluation ends at stage 1 the valuation was not fetched, and when it ends
\* at one of the stages 1 to 8 the intraday data was not fetched.
C2_OrderAndShortCircuit ==
    [][/\ (pc' \in Stages /\ pc' # pc)
            => \/ pc = "for" /\ pc' = "stage1"
               \/ pc \in Stages /\ StageNo(pc') = StageNo(pc) + 1
       /\ \A r \in Reasons \ {"EvaluationError"} :
            /\ (pc = StageOf(r) /\ FailsStage(pc)) => (Counts(r) /\ pc' = "for")
            /\ rejected'[r] # rejected[r] => pc = StageOf(r)
       /\ (EndsSymbol /\ StageNo(pc) < 2)
            => (float_share' = Unbound /\ total_mv' = Unbound)
       /\ (EndsSymbol /\ StageNo(pc) < 9) => intraday_df' = NoTicks]_vars

\* a symbol rejected at stage 7, with no intraday data fetched for it
C2_Witness ==
    /\ pc = "for"
    /\ processed_count = 1
    /\ rejected["VolumeUnstable"] = 1
    /\ total_mv.k = "num"
    /\ intraday_df = NoTicks

\* ------------------------------------------------------------------------
\* C3
\* ------------------------------------------------------------------------

\* condition k of the nine, on a symbol's daily frame, valuation, intraday
\* ticks and the benchmark return; a quotient by a zero mean meets nothing
Cond(k, df, fs, mv, ticks, idx) ==
    CASE k = 1 -> df.k = "df" /\ Rows(df) >= 20
      [] k = 2 -> /\ fs.k = "num" /\ LT(Zero, fs.q)
                  /\ mv.k = "num" /\ LT(Zero, mv.q)
      [] k = 3 -> /\ "close" \in df.cols
                  /\ LE(I(3), pct_change(df)) /\ LE(pct_change(df), I(5))
      [] k = 4 -> /\ "volume" \in df.cols
                  /\ Neq0(avg_volume_5d(df))
                  /\ LE(I(1), Div(TodayVolume(df), avg_volume_5d(df)))
      [] k = 5 -> /\ LE(I(5), est_turnover_rate(df, mv))
                  /\ LE(est_turnover_rate(df, mv), I(10))
      [] k = 6 -> /\ LE(I(5000), est_float_mv(mv))
                  /\ LE(est_float_mv(mv), I(20000))
      [] k = 7 -> ~SurdGT(cv(df), Q(1, 2))
      [] k = 8 -> ~SurdLT(resistance_distance(df), I(3))
      [] k = 9 -> /\ ticks.k = "df" /\ "price" \in ticks.cols
                  /\ ticks.price # <<>>
                  /\ LE(vwap(ticks), TodayClose(df))
                  /\ LE(Add(idx.q, I(1)), stock_pct(ticks))

\* C3: selected changes only by the append that ends a symbol's
\* evaluation; a symbol is appended only if the data fetched for it meets
\* the nine conditions at once, and a symbol that is not appended violates
\* one of the conditions on the data fetched up to the stage where its
\* evaluation ended.
C3_SelectedIffAllNine ==
    [][/\ selected' # selected => (EndsSymbol /\ Appends)
       /\ EndsSymbol
            => IF Appends
               THEN \A k \in 1..9 :
                        Cond(k, daily_df', float_share', total_mv',
                             intraday_df', index_pct)
               ELSE \E k \in 1..StageNo(pc) :
                        ~Cond(k, daily_df', float_share', total_mv',
                              intraday_df', index_pct)]_vars

\* a selected symbol whose price move is exactly 3%
C3_Witness ==
    /\ pc = "for"
    /\ processed_count = 1
    /\ selected = <<symbol>>
    /\ pct_change(daily_df) = I(3)

\* ------------------------------------------------------------------------
\* C4
\* ------------------------------------------------------------------------

\* this step raises an exception in the evaluation of the current symbol
RaisesNow == caught = "none" /\ caught' # "none"

\* the bucket of a symbol as a function of the data fetched for it and of
\* the benchmark return alone ("Selected" or a reason)
Evaluate(df, fs, mv, ticks, idx) ==
    IF df.k # "df" THEN "EvaluationError"
    ELSE IF TooShort(df) THEN "InsufficientHistory"
    ELSE IF NoValuation(fs, mv) THEN "NoValuationData"
    ELSE IF "close" \notin df.cols THEN "EvaluationError"
    ELSE IF PriceMoveOut(df) THEN "PriceMoveOutOfRange"
    ELSE IF "volume" \notin df.cols THEN "EvaluationError"
    ELSE IF VolumeRatioLow(df) THEN "VolumeRatioTooLow"
    ELSE IF TurnoverOut(df, mv) THEN "TurnoverOutOfRange"
    ELSE IF FloatMvOut(mv) THEN "MarketValueOutOfRange"
    ELSE IF VolumeUnstable(df) THEN "VolumeUnstable"
    ELSE IF BandTooClose(df) THEN "BandResistance"
    ELSE IF ticks.k # "df" THEN "EvaluationError"
    ELSE IF ticks.price = <<>> THEN "WeakIntraday"
    ELSE IF "price" \notin ticks.cols THEN "EvaluationError"
    ELSE IF WeakTail(df, ticks, idx) THEN "WeakIntraday"
    ELSE "Selected"

\* this step puts the current symbol in bucket b
PutsIn(b) == IF b = "Selected" THEN Appends ELSE Counts(b)

\* C4 as stated: every exception raised while a symbol is evaluated is
\* counted once under EvaluationError.
C4_Original ==
    [][RaisesNow => (Counts("EvaluationError") /\ pc' = "for")]_vars

\* C4 as amended: an exception raised while a symbol is evaluated ends that
\* symbol's evaluation and is counted once, under NoValuationData when it
\* was raised inside get_float_share_and_mv and under EvaluationError
\* otherwise;
\* the run is never aborted; and the bucket of every symbol, those after a
\* failing one included, is the one its own data and the benchmark return
\* determine.
C4_Isolated ==
    /\ [](pc # "raised")
    /\ [](pc = "done" => it = Len(symbol_list))
    /\ [][/\ RaisesNow
               => /\ pc' = "for"
                  /\ IF caught' \in {"indicator", "spot"}
                     THEN Counts("NoValuationData")
                     ELSE Counts("EvaluationError")
          /\ EndsSymbol
               => PutsIn(Evaluate(daily_df', float_share', total_mv',
                                  intraday_df', index_pct))]_vars

\* the first symbol raised, the second one was evaluated and selected
C4_Witness ==
    /\ pc = "for"
    /\ processed_count = 2
    /\ rejected["EvaluationError"] = 1
    /\ caught = "none"
    /\ selected = <<symbol>>

\* ------------------------------------------------------------------------
\* C5
\* ------------------------------------------------------------------------

\* C5 as stated: a symbol for which the provider holds no total market value
\* ends under NoValuationData whatever its daily series.
C5_Original ==
    [][(EndsSymbol /\ ~mv_resolvable) => Counts("NoValuationData")]_vars

\* C5 as amended: a symbol whose daily series was fetched and has at least
\* 20 rows, and for which the provider holds no total market value, ends
\* under NoValuationData whatever the series holds.
C5_Unresolved ==
    [][(/\ EndsSymbol
        /\ ~mv_resolvable
        /\ daily_df'.k = "df"
        /\ Rows(daily_df') >= 20) => Counts("NoValuationData")]_vars

\* such a symbol, here with a daily frame that lacks the close column
C5_Witness ==
    /\ pc = "for"
    /\ processed_count = 1
    /\ ~mv_resolvable
    /\ daily_df.k = "df"
    /\ Rows(daily_df) >= 20
    /\ "close" \notin daily_df.cols
    /\ total_mv = None
    /\ rejected["NoValuationData"] = 1

\* ------------------------------------------------------------------------
\* C6
\* ------------------------------------------------------------------------

\* C6: past stage 2 the float share estimate and the total market value are
\* both numbers above 0.
C6_PositiveValuation ==
    StageNo(pc) >= 3
        => /\ float_share.k = "num" /\ LT(Zero, float_share.q)
           /\ total_mv.k = "num" /\ LT(Zero, total_mv.q)

\* ------------------------------------------------------------------------
\* C7
\* ------------------------------------------------------------------------

\* C7 as stated: after any failed benchmark call the value is 0.
C7_Original ==
    (pc # "start" /\ index_failed # {}) => index_pct = Num(Zero)

\* C7 as amended: the benchmark return is a number bound before the first
\* symbol is evaluated and never changed afterwards; it is exactly 0 when
\* the alternate call or the return computation failed, and the return of
\* the series otherwise, also when only the primary call failed; no failure
\* aborts the run.
C7_Benchmark ==
    /\ [](pc # "start"
            => /\ index_pct.k = "num"
               /\ (index_failed \cap {"alternate", "compute"}) # {}
                    => index_pct = Num(Zero)
               /\ index_failed \subseteq {"primary"}
                    => index_pct = Num(LastPctChange(<<100, 101>>)))
    /\ [](pc # "raised")
    /\ [](pc = "done" => it = Len(symbol_list))
    /\ [][pc # "start" => index_pct' = index_pct]_vars

\* both benchmark calls failed and two symbols were still evaluated
C7_Witness ==
    /\ pc = "done"
    /\ index_failed = {"primary", "alternate"}
    /\ index_pct = Num(Zero)
    /\ processed_count = 2
    /\ Len(selected) = 1

\* ------------------------------------------------------------------------
\* C8
\* ------------------------------------------------------------------------

\* C8: with an empty symbol_list the run never raises, the statistics
\* included, and nothing is processed, counted or selected.
C8_EmptyList ==
    symbol_list = <<>>
        => /\ pc \in {"start", "for", "stats", "done"}
           /\ processed_count = 0
           /\ \A r \in Reasons : rejected[r] = 0
           /\ selected = <<>>

\* the run on the empty list has returned
C8_Witness == symbol_list = <<>> /\ pc = "done"

\* ------------------------------------------------------------------------
\* C9
\* ------------------------------------------------------------------------

SurdIsZero(s) == SurdFinite(s) /\ s.a = Zero /\ (s.b = Zero \/ s.v = Zero)

\* C9: at stage 4, when the mean of the five volumes before today is 0 the
\* volume ratio is 0 and the symbol is counted under VolumeRatioTooLow; at
\* stage 7, when the mean of the last five volumes is 0 the coefficient of
\* variation is 0 and the symbol goes on to stage 8.
C9_ZeroMean ==
    [][/\ (/\ pc = "stage4"
           /\ "volume" \in daily_df.cols
           /\ avg_volume_5d(daily_df) = Zero)
            => /\ volume_ratio(daily_df) = Zero
               /\ Counts("VolumeRatioTooLow")
               /\ pc' = "for"
       /\ (pc = "stage7" /\ Mean(volumes(daily_df)) = Zero)
            => /\ SurdIsZero(cv(daily_df))
               /\ pc' = "stage8"
               /\ NoBucket]_vars

\* after a symbol rejected for its volume ratio, a symbol whose last five
\* volumes have mean 0 has passed stage 7
C9_Witness ==
    /\ pc = "stage8"
    /\ Mean(volumes(daily_df)) = Zero
    /\ processed_count = 2
    /\ rejected["VolumeRatioTooLow"] = 1

\* ------------------------------------------------------------------------
\* C10
\* ------------------------------------------------------------------------

NonNegative(s) == \A i \in 1..Len(s) : s[i] >= 0

\* C10: a symbol whose volumes are all non-negative reaches stage 7 only
\* with a volume above 0 today and a mean of the last five volumes above 0;
\* whenever stage 5 divides by the total market value it is a number other
\* than 0.
C10_NoZeroDivisor ==
    /\ (pc = "stage7" /\ NonNegative(daily_df.volume))
         => /\ LT(Zero, TodayVolume(daily_df))
            /\ LT(Zero, Mean(volumes(daily_df)))
    /\ pc = "stage5" => (total_mv.k = "num" /\ Neq0(total_mv.q))

\* such a symbol at stage 7
C10_Witness ==
    /\ pc = "stage7"
    /\ NonNegative(daily_df.volume)
    /\ LT(Zero, Mean(volumes(daily_df)))

=============================================================================
